---- MODULE Spec2Model ----
(***************************************************************************)
(* Model of the EKG axis teaching app:                                     *)
(*   - the limb lead engine  (utils/qrsDeflectionCalculator.ts)            *)
(*   - the chest lead engine (utils/chestLeadDeflectionCalculator.ts)      *)
(*   - the axis constants and classifiers (utils/axisConstants.ts)         *)
(*   - the App component and the compass (App.tsx, main.tsx,               *)
(*     components/AxisDashboard.tsx): presets, drag, throttle, debounce    *)
(*   - the module-level deflection cache (getCachedDeflections)            *)
(* Spec is the specification of the engine calls, AppSpec that of the App, *)
(* CacheSpec that of direct calls of getCachedDeflections.                 *)
(*                                                                         *)
(* JavaScript numbers are modelled as records [k, n, d]:                   *)
(*   k = "num"   the exact rational n/d (d > 0, lowest terms)              *)
(*   k = "nan"   NaN                                                       *)
(*   k = "inf"   +Infinity        k = "ninf"  -Infinity                    *)
(*   k = "undef" the value undefined                                       *)
(* Arithmetic on finite values is exact (rounding of IEEE doubles is not   *)
(* modelled); NaN propagates as in JavaScript.                             *)
(***************************************************************************)
EXTENDS Integers, Sequences, FiniteSets, TLC

VARIABLES
    engine,     \* which engine ran last: "none", "limb" or "chest"
    argAngle,   \* the axis angle argument of the last call
    argBase,    \* the baseAmplitude argument of the last limb call
    argPattern, \* the pattern argument of the last chest call
    limbOut,    \* the lead set returned by the last limb call
    chestOut,   \* the lead set returned by the last chest call
    classOut,   \* the string returned by the last classifier call
    build,              \* which App source is running: "main.tsx" or "App.tsx"
    selectedAxis,       \* App state: the active preset, '' when none
    appAxisAngle,       \* App state: axisAngle
    qrsDeflections,     \* App state: the limb lead set on display
    cachedDeflections,  \* the module-level Map, as its entries in insertion order
    isDraggingRef,      \* App ref: updates are arriving fast
    lastUpdateTimeRef,  \* App ref: Date.now() of the last handleAxisChange
    now,                \* Date.now(), in ms
    lastAngle,          \* AxisDashboard ref: the angle the compass tracks
    effectAxisAngle,    \* the axisAngle prop the dashboard's effects last ran for
    effectAxisType,     \* the selectedAxisType the dashboard's effects last ran for
    isDragging,         \* AxisDashboard ref: a drag is on
    lastCall,           \* throttle's lastCall of updateParent
    finalTimer,         \* debounce's pending timeout: when it is due and its argument
    draggedAngle,       \* the angle the last updateAngle call was given
    clicks,             \* how many preset buttons were clicked
    moves               \* how many times updateAngle was called

engineVars == <<engine, argAngle, argBase, argPattern, limbOut, chestOut, classOut>>

appVars ==
    <<build, selectedAxis, appAxisAngle, qrsDeflections, cachedDeflections, isDraggingRef,
      lastUpdateTimeRef, now, lastAngle, effectAxisAngle, effectAxisType, isDragging,
      lastCall, finalTimer, draggedAngle, clicks, moves>>

vars == <<engineVars, appVars>>

----------------------------------------------------------------------------
(* Exact rational arithmetic *)

RECURSIVE GCD(_, _)
GCD(a, b) == IF b = 0 THEN a ELSE GCD(b, a % b)

Abs(x) == IF x < 0 THEN -x ELSE x

Rat(n, d) ==
    LET g == GCD(Abs(n), Abs(d))
    IN  [k |-> "num", n |-> (IF d < 0 THEN -n ELSE n) \div g, d |-> Abs(d) \div g]

NaN       == [k |-> "nan",   n |-> 0, d |-> 1]
Infinity  == [k |-> "inf",   n |-> 0, d |-> 1]
NegInfinity == [k |-> "ninf", n |-> 0, d |-> 1]
undefined == [k |-> "undef", n |-> 0, d |-> 1]

Zero == Rat(0, 1)

IsNum(x) == x.k = "num"

\* cross-cancelling forms keep the intermediate products small
AddG(x, y, g) == Rat(x.n * (y.d \div g) + y.n * (x.d \div g), (x.d \div g) * y.d)
RAdd(x, y) == AddG(x, y, GCD(x.d, y.d))
RNeg(x)    == [k |-> "num", n |-> -x.n, d |-> x.d]
RSub(x, y) == RAdd(x, RNeg(y))
MulG(x, y, g1, g2) ==
    Rat((x.n \div g1) * (y.n \div g2), (x.d \div g2) * (y.d \div g1))
RMul(x, y) == MulG(x, y, GCD(Abs(x.n), y.d), GCD(Abs(y.n), x.d))
RInv(y)    == [k |-> "num", n |-> IF y.n < 0 THEN -y.d ELSE y.d, d |-> Abs(y.n)]
RDiv(x, y) == RMul(x, RInv(y))
RAbs(x)    == [k |-> "num", n |-> Abs(x.n), d |-> x.d]
LtG(x, y, g) == x.n * (y.d \div g) < y.n * (x.d \div g)
RLt(x, y)  == LtG(x, y, GCD(x.d, y.d))
RLe(x, y)  == ~RLt(y, x)
REq(x, y)  == x.n = y.n /\ x.d = y.d
RMax(x, y) == IF RLt(x, y) THEN y ELSE x
RMin(x, y) == IF RLt(y, x) THEN y ELSE x

\* JavaScript's % on finite numbers: the remainder has the sign of the dividend
JsRem(x, m) ==
    LET mm == m * x.d
    IN  IF x.n >= 0 THEN Rat(x.n % mm, x.d) ELSE Rat(-((-x.n) % mm), x.d)

----------------------------------------------------------------------------
(* JavaScript arithmetic with NaN propagation (operands are finite or NaN; *)
(* undefined converts to NaN in arithmetic)                                *)

ToNum(x) == IF x.k = "undef" THEN NaN ELSE x

JMul(x, y) == IF IsNum(x) /\ IsNum(y) THEN RMul(x, y) ELSE NaN
JAdd(x, y) == IF IsNum(x) /\ IsNum(y) THEN RAdd(x, y) ELSE NaN
JAbs(x)    == IF IsNum(x) THEN RAbs(x) ELSE NaN
\* x / y for a nonzero finite y
JDiv(x, y) == IF IsNum(x) /\ IsNum(y) THEN RDiv(x, y) ELSE NaN
\* Math.max / Math.min return NaN when any argument is NaN
MathMax(x, y) == IF IsNum(x) /\ IsNum(y) THEN RMax(x, y) ELSE NaN
MathMin(x, y) == IF IsNum(x) /\ IsNum(y) THEN RMin(x, y) ELSE NaN
\* x > y is false when either side is NaN or undefined
JGt(x, y) == IsNum(x) /\ IsNum(y) /\ RLt(y, x)
JLe(x, y) == IsNum(x) /\ IsNum(y) /\ RLe(x, y)

----------------------------------------------------------------------------
(* Limb lead engine: utils/qrsDeflectionCalculator.ts *)

LimbLeads == {"leadI", "leadII", "leadIII", "aVR", "aVL", "aVF"}

\* the hexaxial lead angles of calculateLimbLeadDeflections
leadAngles ==
    [leadI |-> Rat(0, 1), leadII |-> Rat(60, 1), leadIII |-> Rat(120, 1),
     aVR |-> Rat(-150, 1), aVL |-> Rat(-30, 1), aVF |-> Rat(90, 1)]

\* a LimbLeadDeflections object built lead by lead
LimbLeadDeflections(F(_)) ==
    [leadI |-> F("leadI"), leadII |-> F("leadII"), leadIII |-> F("leadIII"),
     aVR |-> F("aVR"), aVL |-> F("aVL"), aVF |-> F("aVF")]

isValidNumber(value) == IsNum(value)

\* ((angle % 360) + 360) % 360, then minus 360 when above 180
WrapAngle_from180(angle) ==
    LET a1 == JsRem(RAdd(JsRem(angle, 360), Rat(360, 1)), 360)
    IN  IF RLe(Rat(180, 1), a1) THEN RSub(a1, Rat(360, 1)) ELSE a1

WrapAngle(angle) ==
    LET a1 == JsRem(RAdd(JsRem(angle, 360), Rat(360, 1)), 360)
    IN  IF RLt(Rat(180, 1), a1) THEN RSub(a1, Rat(360, 1)) ELSE a1

normalizeAngle(angle) ==
    IF ~isValidNumber(angle) THEN Zero ELSE WrapAngle(angle)

\* the floor for r and for |s| in applyMinimumValues
minValues_low == [q |-> Zero, r |-> Rat(2, 10), s |-> Rat(1, 10)]

minValues == [q |-> Zero, r |-> Rat(3, 10), s |-> Rat(15, 100)]

\* the ceiling local to normalizeLimbLeadDeflections ("Reduced from 18.0")
LIMB_MAX_DEFLECTION_old == Rat(18, 1)

LIMB_MAX_DEFLECTION == Rat(9, 1)

\* the linear split of TOTAL_AMPLITUDE between R and S
Distribute_swapped(absAngleDiff, TOTAL_AMPLITUDE) ==
    LET angleProportion == RDiv(absAngleDiff, Rat(180, 1))
        rProportion == RAdd(Rat(1, 10), RMul(Rat(8, 10), angleProportion))
        sProportion == RSub(Rat(9, 10), RMul(Rat(8, 10), angleProportion))
    IN  [r |-> RMul(TOTAL_AMPLITUDE, rProportion),
         s |-> RNeg(RMul(TOTAL_AMPLITUDE, sProportion))]

Distribute(absAngleDiff, TOTAL_AMPLITUDE) ==
    LET angleProportion == RDiv(absAngleDiff, Rat(180, 1))
        rProportion == RSub(Rat(9, 10), RMul(Rat(8, 10), angleProportion))
        sProportion == RAdd(Rat(1, 10), RMul(Rat(8, 10), angleProportion))
    IN  [r |-> RMul(TOTAL_AMPLITUDE, rProportion),
         s |-> RNeg(RMul(TOTAL_AMPLITUDE, sProportion))]

\* the override for a lead about perpendicular to the axis
PerpendicularOverride_double(absAngleDiff, amplifiedBaseAmplitude, amp) ==
    IF RLt(RAbs(RSub(absAngleDiff, Rat(90, 1))), Rat(5, 1))
    THEN [r |-> RMul(Rat(2, 1), amplifiedBaseAmplitude),
          s |-> RMul(Rat(-2, 1), amplifiedBaseAmplitude)]
    ELSE amp

\* variant: the amplitudes the override had before they were reduced
PerpendicularOverride_old(absAngleDiff, amplifiedBaseAmplitude, amp) ==
    IF RLt(RAbs(RSub(absAngleDiff, Rat(90, 1))), Rat(5, 1))
    THEN [r |-> RMul(Rat(3, 1), amplifiedBaseAmplitude),
          s |-> RMul(Rat(-3, 1), amplifiedBaseAmplitude)]
    ELSE amp

PerpendicularOverride_never(absAngleDiff, amplifiedBaseAmplitude, amp) == amp

PerpendicularOverride(absAngleDiff, amplifiedBaseAmplitude, amp) ==
    IF RLt(RAbs(RSub(absAngleDiff, Rat(90, 1))), Rat(5, 1))
    THEN [r |-> RMul(Rat(15, 10), amplifiedBaseAmplitude),
          s |-> RMul(Rat(-15, 10), amplifiedBaseAmplitude)]
    ELSE amp

\* the extra scaling near alignment and near opposition
Boost_swapped(absAngleDiff, amp) ==
    LET a1 == IF RLt(absAngleDiff, Rat(15, 1))
              THEN [r |-> RMul(amp.r, Rat(8, 10)), s |-> RMul(amp.s, Rat(12, 10))]
              ELSE amp
    IN  IF RLt(Rat(165, 1), absAngleDiff)
        THEN [r |-> RMul(a1.r, Rat(12, 10)), s |-> RMul(a1.s, Rat(8, 10))]
        ELSE a1

Boost(absAngleDiff, amp) ==
    LET a1 == IF RLt(absAngleDiff, Rat(15, 1))
              THEN [r |-> RMul(amp.r, Rat(12, 10)), s |-> RMul(amp.s, Rat(8, 10))]
              ELSE amp
    IN  IF RLt(Rat(165, 1), absAngleDiff)
        THEN [r |-> RMul(a1.r, Rat(8, 10)), s |-> RMul(a1.s, Rat(12, 10))]
        ELSE a1

createQRSDeflection_anyBase(axisAngle0, leadAngle0, baseAmplitude0) ==
    LET axisAngle == IF ~isValidNumber(axisAngle0) THEN Zero ELSE axisAngle0
        leadAngle == IF ~isValidNumber(leadAngle0) THEN Zero ELSE leadAngle0
        \* the validation replaces NaN, +-Infinity and values <= 0
        baseAmplitude ==
            IF ~isValidNumber(baseAmplitude0)
            THEN Rat(1, 1) ELSE baseAmplitude0
        amplifiedBaseAmplitude == RMul(baseAmplitude, Rat(18, 10))
        angleDiff == normalizeAngle(RSub(leadAngle, axisAngle))
        absAngleDiff == RAbs(angleDiff)
        TOTAL_AMPLITUDE == RMul(Rat(3, 1), amplifiedBaseAmplitude)
        amp0 == Distribute(absAngleDiff, TOTAL_AMPLITUDE)
        amp1 == PerpendicularOverride(absAngleDiff, amplifiedBaseAmplitude, amp0)
        amp2 == Boost(absAngleDiff, amp1)
        rAmp == IF ~isValidNumber(amp2.r) THEN Rat(1, 1) ELSE amp2.r
        sAmp == IF ~isValidNumber(amp2.s) THEN Rat(-1, 2) ELSE amp2.s
    IN  [q |-> Zero, r |-> rAmp, s |-> sAmp]

createQRSDeflection(axisAngle0, leadAngle0, baseAmplitude0) ==
    LET axisAngle == IF ~isValidNumber(axisAngle0) THEN Zero ELSE axisAngle0
        leadAngle == IF ~isValidNumber(leadAngle0) THEN Zero ELSE leadAngle0
        \* the validation replaces NaN, +-Infinity and values <= 0
        baseAmplitude ==
            IF ~isValidNumber(baseAmplitude0) \/ RLe(baseAmplitude0, Zero)
            THEN Rat(1, 1) ELSE baseAmplitude0
        amplifiedBaseAmplitude == RMul(baseAmplitude, Rat(18, 10))
        angleDiff == normalizeAngle(RSub(leadAngle, axisAngle))
        absAngleDiff == RAbs(angleDiff)
        TOTAL_AMPLITUDE == RMul(Rat(3, 1), amplifiedBaseAmplitude)
        amp0 == Distribute(absAngleDiff, TOTAL_AMPLITUDE)
        amp1 == PerpendicularOverride(absAngleDiff, amplifiedBaseAmplitude, amp0)
        amp2 == Boost(absAngleDiff, amp1)
        rAmp == IF ~isValidNumber(amp2.r) THEN Rat(1, 1) ELSE amp2.r
        sAmp == IF ~isValidNumber(amp2.s) THEN Rat(-1, 2) ELSE amp2.s
    IN  [q |-> Zero, r |-> rAmp, s |-> sAmp]

\* one component of applyMinimumValues' inner loop
ApplyMin_unsigned(value, min) ==
    IF ~REq(value, Zero) /\ RLt(RAbs(value), min) THEN min ELSE value

ApplyMin(value, min) ==
    IF ~REq(value, Zero) /\ RLt(RAbs(value), min)
    THEN (IF RLt(Zero, value) THEN min ELSE RNeg(min))
    ELSE value

applyMinimumValues_qFloored(deflections) ==
    LimbLeadDeflections(LAMBDA l :
        [q |-> RNeg(minValues.s),
         r |-> ApplyMin(deflections[l].r, minValues.r),
         s |-> ApplyMin(deflections[l].s, minValues.s)])

applyMinimumValues(deflections) ==
    LimbLeadDeflections(LAMBDA l :
        [q |-> Zero,
         r |-> ApplyMin(deflections[l].r, minValues.r),
         s |-> ApplyMin(deflections[l].s, minValues.s)])

Components(deflections, leads) ==
    UNION {{deflections[l].q, deflections[l].r, deflections[l].s} : l \in leads}

\* the largest absolute value of any valid component, starting from 0
MaxAbsValue(deflections, leads) ==
    LET cand == {Zero} \cup
                {RAbs(v) : v \in {c \in Components(deflections, leads) : isValidNumber(c)}}
    IN  CHOOSE m \in cand : \A x \in cand : RLe(x, m)

normalizeLimbLeadDeflections_perLead(deflections) ==
    LET sanitized ==
            LimbLeadDeflections(LAMBDA l :
                [q |-> IF ~isValidNumber(deflections[l].q) THEN Zero ELSE deflections[l].q,
                 r |-> IF ~isValidNumber(deflections[l].r) THEN Rat(1, 1) ELSE deflections[l].r,
                 s |-> IF ~isValidNumber(deflections[l].s) THEN Rat(-1, 2) ELSE deflections[l].s])
        maxAbsValue == MaxAbsValue(sanitized, LimbLeads)
    IN  IF RLt(LIMB_MAX_DEFLECTION, maxAbsValue) /\ RLt(Zero, maxAbsValue)
        THEN LimbLeadDeflections(LAMBDA l :
                [q |-> RMul(sanitized[l].q, RDiv(LIMB_MAX_DEFLECTION, MaxAbsValue(sanitized, {l}))),
                 r |-> RMul(sanitized[l].r, RDiv(LIMB_MAX_DEFLECTION, MaxAbsValue(sanitized, {l}))),
                 s |-> RMul(sanitized[l].s, RDiv(LIMB_MAX_DEFLECTION, MaxAbsValue(sanitized, {l})))])
        ELSE sanitized

normalizeLimbLeadDeflections(deflections) ==
    LET sanitized ==
            LimbLeadDeflections(LAMBDA l :
                [q |-> IF ~isValidNumber(deflections[l].q) THEN Zero ELSE deflections[l].q,
                 r |-> IF ~isValidNumber(deflections[l].r) THEN Rat(1, 1) ELSE deflections[l].r,
                 s |-> IF ~isValidNumber(deflections[l].s) THEN Rat(-1, 2) ELSE deflections[l].s])
        maxAbsValue == MaxAbsValue(sanitized, LimbLeads)
    IN  IF RLt(LIMB_MAX_DEFLECTION, maxAbsValue) /\ RLt(Zero, maxAbsValue)
        THEN LET scaleFactor == RDiv(LIMB_MAX_DEFLECTION, maxAbsValue)
             IN  LimbLeadDeflections(LAMBDA l :
                    [q |-> RMul(sanitized[l].q, scaleFactor),
                     r |-> RMul(sanitized[l].r, scaleFactor),
                     s |-> RMul(sanitized[l].s, scaleFactor)])
        ELSE sanitized

\* the six direct projections (createQRSDeflection per lead)
DirectDeflections(axisAngle, baseAmplitude) ==
    LimbLeadDeflections(LAMBDA l :
        createQRSDeflection(axisAngle, leadAngles[l], baseAmplitude))

\* leadI and leadII: an invalid r or s is replaced by 0; the other four leads
\* are rebuilt with q: 0
CombineLeads_einthoven(direct) ==
    LimbLeadDeflections(LAMBDA l :
        IF l \in {"leadI", "leadII"}
        THEN [q |-> direct[l].q,
              r |-> IF ~isValidNumber(direct[l].r) THEN Zero ELSE direct[l].r,
              s |-> IF ~isValidNumber(direct[l].s) THEN Zero ELSE direct[l].s]
        ELSE IF l = "leadIII"
        THEN [q |-> Zero,
              r |-> RSub(direct["leadII"].r, direct["leadI"].r),
              s |-> RSub(direct["leadII"].s, direct["leadI"].s)]
        ELSE [q |-> Zero, r |-> direct[l].r, s |-> direct[l].s])

CombineLeads(direct) ==
    LimbLeadDeflections(LAMBDA l :
        IF l \in {"leadI", "leadII"}
        THEN [q |-> direct[l].q,
              r |-> IF ~isValidNumber(direct[l].r) THEN Zero ELSE direct[l].r,
              s |-> IF ~isValidNumber(direct[l].s) THEN Zero ELSE direct[l].s]
        ELSE [q |-> Zero, r |-> direct[l].r, s |-> direct[l].s])

\* deflectionsWithMins: what calculateLimbLeadDeflections hands to
\* normalizeLimbLeadDeflections
deflectionsWithMins(axisAngle, baseAmplitude) ==
    applyMinimumValues(
        CombineLeads(
            DirectDeflections(
                \* NaN % 360, Infinity % 360 and undefined % 360 are NaN,
                \* and NaN > 180 is false
                IF IsNum(axisAngle) THEN WrapAngle(axisAngle) ELSE NaN,
                \* the default parameter value replaces undefined
                IF baseAmplitude.k = "undef" THEN Rat(1, 1) ELSE baseAmplitude)))

calculateLimbLeadDeflections(axisAngle, baseAmplitude) ==
    normalizeLimbLeadDeflections(deflectionsWithMins(axisAngle, baseAmplitude))

----------------------------------------------------------------------------
(* Chest lead engine: utils/chestLeadDeflectionCalculator.ts *)

CHEST_LEADS == <<"V1", "V2", "V3", "V4", "V5", "V6">>

ChestLeads == {CHEST_LEADS[i] : i \in 1..Len(CHEST_LEADS)}

CHEST_LEAD_PROGRESSION ==
    [V1 |-> Rat(0, 1), V2 |-> Rat(2, 10), V3 |-> Rat(4, 10),
     V4 |-> Rat(6, 10), V5 |-> Rat(8, 10), V6 |-> Rat(1, 1)]

\* a ChestLeadDeflections object built lead by lead
ChestLeadDeflections(F(_)) ==
    [V1 |-> F("V1"), V2 |-> F("V2"), V3 |-> F("V3"),
     V4 |-> F("V4"), V5 |-> F("V5"), V6 |-> F("V6")]

\* the values of enum ChestLeadPattern
ChestLeadPattern ==
    {"normal", "lvh", "rvh", "anterior_mi", "lateral_mi", "rbbb", "lbbb"}

\* import { MAX_DEFLECTION } from './axisConstants': axisConstants exports
\* AXIS_RANGES, AXIS_VALUES, AXIS_TYPE_MAP, AXIS_SAMPLE_DATA and four helper
\* functions, but no MAX_DEFLECTION, so the imported binding is undefined
MAX_DEFLECTION == undefined

\* cos(d degrees) * 10000 for d = 0..90, rounded to the nearest integer
CosTable ==
    <<10000, 9998, 9994, 9986, 9976, 9962, 9945, 9925, 9903, 9877,
      9848, 9816, 9781, 9744, 9703, 9659, 9613, 9563, 9511, 9455,
      9397, 9336, 9272, 9205, 9135, 9063, 8988, 8910, 8829, 8746,
      8660, 8572, 8480, 8387, 8290, 8192, 8090, 7986, 7880, 7771,
      7660, 7547, 7431, 7314, 7193, 7071, 6947, 6820, 6691, 6561,
      6428, 6293, 6157, 6018, 5878, 5736, 5592, 5446, 5299, 5150,
      5000, 4848, 4695, 4540, 4384, 4226, 4067, 3907, 3746, 3584,
      3420, 3256, 3090, 2924, 2756, 2588, 2419, 2250, 2079, 1908,
      1736, 1564, 1392, 1219, 1045, 872, 698, 523, 349, 175,
      0>>

\* Math.cos(deg * Math.PI / 180) for a whole number of degrees; NaN for
\* NaN and +-Infinity
MathCosDeg(deg) ==
    IF ~IsNum(deg) THEN NaN
    ELSE LET m == deg.n % 360
         IN  CASE m <= 90  -> Rat(CosTable[m + 1], 10000)
               [] m > 90 /\ m <= 180  -> Rat(-CosTable[180 - m + 1], 10000)
               [] m > 180 /\ m <= 270 -> Rat(-CosTable[m - 180 + 1], 10000)
               [] m > 270 -> Rat(CosTable[360 - m + 1], 10000)

\* the q/r/s fractions of baseAmplitude of each pattern's recipe, before the
\* axis modulation and the clamps
Recipe(position, patternType) ==
    LET p  == position
        tf == RDiv(RSub(p, Rat(2, 10)), Rat(4, 10))   \* transitionFactor
        lf == RDiv(RSub(p, Rat(6, 10)), Rat(4, 10))   \* lateralFactor
        band == IF RLe(p, Rat(2, 10)) THEN 1 ELSE IF RLe(p, Rat(6, 10)) THEN 2 ELSE 3
        F(r, s, q) == [q |-> RNeg(q), r |-> r, s |-> RNeg(s)]
    IN  CASE patternType = "normal" ->
               (CASE band = 1 -> F(RMul(Rat(2, 10), RAdd(Rat(1, 1), RMul(p, Rat(2, 1)))),
                                  RSub(Rat(8, 10), RMul(p, Rat(5, 10))),
                                  Rat(5, 100))
                 [] band = 2 -> F(RAdd(Rat(4, 10), RMul(tf, Rat(4, 10))),
                                  RSub(Rat(7, 10), RMul(tf, Rat(5, 10))),
                                  RAdd(Rat(5, 100), RMul(tf, Rat(1, 10))))
                 [] band = 3 -> F(RAdd(Rat(8, 10), RMul(lf, Rat(1, 10))),
                                  RSub(Rat(2, 10), RMul(lf, Rat(15, 100))),
                                  RAdd(Rat(15, 100), RMul(lf, Rat(5, 100)))))
          [] patternType = "lvh" ->
               (CASE band = 1 -> F(Rat(2, 10), Rat(9, 10), Rat(5, 100))
                 [] band = 2 -> F(RAdd(Rat(2, 10), RMul(tf, Rat(8, 10))),
                                  RSub(Rat(9, 10), RMul(tf, Rat(4, 10))),
                                  RAdd(Rat(5, 100), RMul(tf, Rat(15, 100))))
                 [] band = 3 -> F(Rat(15, 10), Rat(2, 10), Rat(25, 100)))
          [] patternType = "rvh" ->
               (CASE band = 1 -> F(Rat(8, 10), Rat(4, 10), Rat(5, 100))
                 [] band = 2 -> F(RSub(Rat(8, 10), RMul(tf, Rat(4, 10))),
                                  RAdd(Rat(4, 10), RMul(tf, Rat(3, 10))),
                                  Rat(5, 100))
                 [] band = 3 -> F(Rat(4, 10), Rat(7, 10), Rat(5, 100)))
          [] patternType = "anterior_mi" ->
               (CASE band \in {1, 2} -> F(Rat(1, 10), Rat(9, 10), Rat(3, 10))
                 [] band = 3 -> F(RAdd(Rat(1, 10), RMul(lf, Rat(7, 10))),
                                  RSub(Rat(9, 10), RMul(lf, Rat(7, 10))),
                                  RSub(Rat(3, 10), RMul(lf, Rat(2, 10)))))
          [] patternType = "rbbb" ->
               (CASE band = 1 -> F(Rat(9, 10), Rat(5, 10), Rat(5, 100))
                 [] band = 2 -> F(RSub(Rat(9, 10), RMul(tf, Rat(3, 10))),
                                  RAdd(Rat(5, 10), RMul(tf, Rat(2, 10))),
                                  RAdd(Rat(5, 100), RMul(tf, Rat(1, 10))))
                 [] band = 3 -> F(Rat(6, 10), Rat(7, 10), Rat(15, 100)))
          [] patternType = "lbbb" ->
               (CASE band = 1 -> F(Rat(1, 10), Rat(9, 10), Rat(2, 10))
                 [] band = 2 -> F(RAdd(Rat(1, 10), RMul(tf, Rat(7, 10))),
                                  RSub(Rat(9, 10), RMul(tf, Rat(7, 10))),
                                  Rat(2, 10))
                 [] band = 3 -> F(Rat(12, 10), Rat(1, 10), Rat(2, 10)))
          \* no branch matches (LATERAL_INFARCT has none): q, r, s stay 0
          [] OTHER -> [q |-> Zero, r |-> Zero, s |-> Zero]

\* NORMAL only: 1 + cos((axis - 60) * PI / 180) * position * 0.3
AxisScaleFactor_minus(qrsAxisAngle, position) ==
    LET axisEffect == MathCosDeg(JAdd(ToNum(qrsAxisAngle), Rat(-60, 1)))
    IN  JAdd(Rat(1, 1), JMul(JMul(axisEffect, position), Rat(-3, 10)))

AxisScaleFactor(qrsAxisAngle, position) ==
    LET axisEffect == MathCosDeg(JAdd(ToNum(qrsAxisAngle), Rat(-60, 1)))
    IN  JAdd(Rat(1, 1), JMul(JMul(axisEffect, position), Rat(3, 10)))

\* variant: the axis modulation applied to every pattern
generateChestLeadDeflection_alwaysScaled(position, qrsAxisAngle, patternType, baseAmplitude) ==
    LET f  == Recipe(position, patternType)
        axisScaleFactor == AxisScaleFactor(qrsAxisAngle, position)
        r1 == JMul(RMul(baseAmplitude, f.r), axisScaleFactor)
        s1 == JMul(RMul(baseAmplitude, f.s), axisScaleFactor)
        q1 == JMul(RMul(baseAmplitude, f.q), axisScaleFactor)
    IN  [q |-> MathMax(RNeg(baseAmplitude), MathMin(Zero, q1)),
         r |-> MathMax(Zero, MathMin(RMul(baseAmplitude, Rat(2, 1)), r1)),
         s |-> MathMax(RMul(RNeg(baseAmplitude), Rat(2, 1)), MathMin(Zero, s1))]

generateChestLeadDeflection(position, qrsAxisAngle, patternType, baseAmplitude) ==
    LET f  == Recipe(position, patternType)
        r0 == RMul(baseAmplitude, f.r)
        s0 == RMul(baseAmplitude, f.s)
        q0 == RMul(baseAmplitude, f.q)
        axisScaleFactor == AxisScaleFactor(qrsAxisAngle, position)
        r1 == IF patternType = "normal" THEN JMul(r0, axisScaleFactor) ELSE r0
        s1 == IF patternType = "normal" THEN JMul(s0, axisScaleFactor) ELSE s0
        q1 == IF patternType = "normal" THEN JMul(q0, axisScaleFactor) ELSE q0
    IN  [q |-> MathMax(RNeg(baseAmplitude), MathMin(Zero, q1)),
         r |-> MathMax(Zero, MathMin(RMul(baseAmplitude, Rat(2, 1)), r1)),
         s |-> MathMax(RMul(RNeg(baseAmplitude), Rat(2, 1)), MathMin(Zero, s1))]

\* normalizeQRS inside normalizeDeflections
normalizeQRS(qrs) ==
    LET totalMagnitude == JAdd(JAdd(JAbs(qrs.q), qrs.r), JAbs(qrs.s))
    IN  IF JGt(totalMagnitude, MAX_DEFLECTION)
        THEN LET scaleFactor == JDiv(MAX_DEFLECTION, totalMagnitude)
             IN  [q |-> JMul(qrs.q, scaleFactor),
                  r |-> JMul(qrs.r, scaleFactor),
                  s |-> JMul(qrs.s, scaleFactor)]
        ELSE qrs

normalizeDeflections(deflections) ==
    ChestLeadDeflections(LAMBDA l : normalizeQRS(deflections[l]))

\* the reduce over CHEST_LEADS (baseAmplitude keeps its default, 10)
GenerateChestLeads(qrsAxisAngle, patternType) ==
    ChestLeadDeflections(LAMBDA l :
        generateChestLeadDeflection(CHEST_LEAD_PROGRESSION[l], qrsAxisAngle,
                                    patternType, Rat(10, 1)))

calculateChestLeadDeflections(qrsAxisAngle, patternType) ==
    normalizeDeflections(
        GenerateChestLeads(
            qrsAxisAngle,
            \* the default parameter value replaces undefined
            IF patternType = "undefined" THEN "normal" ELSE patternType))

----------------------------------------------------------------------------
(* Axis constants and classification: utils/axisConstants.ts and           *)
(* utils/axisCalculations.ts                                               *)

\* the value null (classifyAxis and classifyAxisValue take number | null)
null == [k |-> "null", n |-> 0, d |-> 1]

AXIS_RANGES ==
    [NORMAL  |-> [MIN |-> Rat(-30, 1),  MAX |-> Rat(90, 1)],
     LEFT    |-> [MIN |-> Rat(-90, 1),  MAX |-> Rat(-30, 1)],
     RIGHT   |-> [MIN |-> Rat(90, 1),   MAX |-> Rat(180, 1)],
     EXTREME |-> [MIN |-> Rat(-180, 1), MAX |-> Rat(-90, 1)]]

AXIS_VALUES ==
    [NORMAL |-> Rat(60, 1), LEFT |-> Rat(-45, 1), RIGHT |-> Rat(120, 1),
     EXTREME |-> Rat(-135, 1)]

AXIS_TYPE_MAP ==
    [normal |-> "NORMAL", left |-> "LEFT", right |-> "RIGHT", extreme |-> "EXTREME"]

\* ((axis % 360) + 540) % 360 - 180; NaN for NaN, +-Infinity and undefined
ClassifierNormalize(axis) ==
    IF ~IsNum(axis) THEN NaN
    ELSE RSub(JsRem(RAdd(JsRem(axis, 360), Rat(540, 1)), 360), Rat(180, 1))

\* x >= y and x < y are false when either side is NaN
JGe(x, y) == IsNum(x) /\ IsNum(y) /\ RLe(y, x)
JLt(x, y) == IsNum(x) /\ IsNum(y) /\ RLt(x, y)

classifyAxisValue(axis) ==
    IF axis = null THEN "Indeterminate"
    ELSE LET normalizedAxis == ClassifierNormalize(axis)
         IN  IF JGe(normalizedAxis, AXIS_RANGES.NORMAL.MIN)
                  /\ JLe(normalizedAxis, AXIS_RANGES.NORMAL.MAX)
             THEN "Normal"
             ELSE IF JGt(normalizedAxis, AXIS_RANGES.RIGHT.MIN)
                       /\ JLe(normalizedAxis, AXIS_RANGES.RIGHT.MAX)
             THEN "Right Axis Deviation"
             ELSE IF JGe(normalizedAxis, AXIS_RANGES.LEFT.MIN)
                       /\ JLt(normalizedAxis, AXIS_RANGES.LEFT.MAX)
             THEN "Left Axis Deviation"
             ELSE "Extreme Axis Deviation"

classifyAxis(axis) ==
    IF axis = null THEN "Indeterminate"
    ELSE LET normalizedAxis == ClassifierNormalize(axis)
         IN  IF JGe(normalizedAxis, Rat(-30, 1)) /\ JLe(normalizedAxis, Rat(90, 1))
             THEN "Normal"
             ELSE IF JGt(normalizedAxis, Rat(90, 1)) /\ JLe(normalizedAxis, Rat(180, 1))
             THEN "Right Axis Deviation"
             ELSE IF JGe(normalizedAxis, Rat(-90, 1)) /\ JLt(normalizedAxis, Rat(-30, 1))
             THEN "Left Axis Deviation"
             ELSE "Extreme Axis Deviation"

----------------------------------------------------------------------------
(* The callers' inputs *)

\* integer axis angles run over -MaxAxisAngle .. MaxAxisAngle degrees
MaxAxisAngle == 185

\* baseAmplitude runs over k/4 for k in -1 .. MaxBaseQuarters
MaxBaseQuarters == 8

NonFinite == {NaN, Infinity, NegInfinity, undefined}

IntegerAngles == {Rat(a, 1) : a \in -MaxAxisAngle..MaxAxisAngle}

\* angles off the integer grid and more than one turn away
ExtraAngles ==
    {Rat(171, 2), Rat(-171, 2), Rat(291, 2), Rat(1, 3), Rat(540, 1), Rat(-540, 1),
     Rat(420, 1), Rat(-510, 1)}

LimbAngles == IntegerAngles \cup ExtraAngles \cup NonFinite

ChestAngles == IntegerAngles \cup {Rat(540, 1), Rat(-540, 1), Rat(420, 1)} \cup NonFinite

BaseAmplitudes ==
    {Rat(k, 4) : k \in -1..MaxBaseQuarters}
        \cup {Rat(1, 20), Rat(1, 10), Rat(48, 1), Rat(1000, 1)} \cup NonFinite

PatternArgs == ChestLeadPattern \cup {"undefined"}

Classifiers == {"classifyAxisValue", "classifyAxis"}

ClassifierArgs == LimbAngles \cup {null}

NoDeflection == [q |-> undefined, r |-> undefined, s |-> undefined]

----------------------------------------------------------------------------
(* The state machine: a caller invokes one engine and later drops the      *)
(* returned lead set                                                       *)

\* no engine call is in progress
EngineIdle ==
    /\ engine = "none"
    /\ argAngle = undefined
    /\ argBase = undefined
    /\ argPattern = "undefined"
    /\ limbOut = LimbLeadDeflections(LAMBDA l : NoDeflection)
    /\ chestOut = ChestLeadDeflections(LAMBDA l : NoDeflection)
    /\ classOut = ""

\* the App component is not mounted
AppUnmounted ==
    /\ build = "none"
    /\ selectedAxis = ""
    /\ appAxisAngle = undefined
    /\ qrsDeflections = LimbLeadDeflections(LAMBDA l : NoDeflection)
    /\ cachedDeflections = <<>>
    /\ isDraggingRef = FALSE
    /\ lastUpdateTimeRef = 0
    /\ now = 0
    /\ lastAngle = undefined
    /\ effectAxisAngle = undefined
    /\ effectAxisType = ""
    /\ isDragging = FALSE
    /\ lastCall = 0
    /\ finalTimer = [due |-> 0, angle |-> undefined]
    /\ draggedAngle = undefined
    /\ clicks = 0
    /\ moves = 0

Init == EngineIdle /\ AppUnmounted

CallLimb(a, b) ==
    /\ engine = "none"
    /\ engine' = "limb"
    /\ argAngle' = a
    /\ argBase' = b
    /\ limbOut' = calculateLimbLeadDeflections(a, b)
    /\ UNCHANGED <<argPattern, chestOut, classOut>>
    /\ UNCHANGED appVars

CallChest(a, p) ==
    /\ engine = "none"
    /\ engine' = "chest"
    /\ argAngle' = a
    /\ argPattern' = p
    /\ chestOut' = calculateChestLeadDeflections(a, p)
    /\ UNCHANGED <<argBase, limbOut, classOut>>
    /\ UNCHANGED appVars

\* a call of one of the two classifiers, f being the function's name
CallClassify(f, a) ==
    /\ engine = "none"
    /\ engine' = f
    /\ argAngle' = a
    /\ classOut' = IF f = "classifyAxisValue" THEN classifyAxisValue(a) ELSE classifyAxis(a)
    /\ UNCHANGED <<argBase, argPattern, limbOut, chestOut>>
    /\ UNCHANGED appVars

\* the caller discards the returned value
Discard ==
    /\ engine # "none"
    /\ engine' = "none"
    /\ argAngle' = undefined
    /\ argBase' = undefined
    /\ argPattern' = "undefined"
    /\ limbOut' = LimbLeadDeflections(LAMBDA l : NoDeflection)
    /\ chestOut' = ChestLeadDeflections(LAMBDA l : NoDeflection)
    /\ classOut' = ""
    /\ UNCHANGED appVars

Next ==
    \/ \E a \in LimbAngles, b \in BaseAmplitudes : CallLimb(a, b)
    \/ \E a \in ChestAngles, p \in PatternArgs : CallChest(a, p)
    \/ \E f \in Classifiers, a \in ClassifierArgs : CallClassify(f, a)
    \/ Discard

Spec == Init /\ [][Next]_vars

----------------------------------------------------------------------------
(* The App component (App.tsx, main.tsx) and the AxisDashboard component:   *)
(* its effects, its pointer handlers, the throttle of updateParent and the *)
(* debounce of debouncedFinalUpdate.  The refs updateCountRef and          *)
(* userInteractionRef are written but never read, and the lead             *)
(* measurements feed no angle; they are left out.  An effect runs some     *)
(* time after the render that caused it: the document's pointer listeners  *)
(* may run first, React's own handlers and timeouts run after it.          *)

\* Math.round: the nearest integer, halves towards +Infinity
MathRound(x) == (2 * x.n + x.d) \div (2 * x.d)

\* roundToDecimal(value) with the default decimals = 1
roundToDecimal(value) == Rat(MathRound(RMul(value, Rat(10, 1))), 10)

generateRealisticQRSDeflections(qrsAxisAngle) ==
    calculateLimbLeadDeflections(qrsAxisAngle, undefined)

\* the size above which getCachedDeflections deletes the oldest entry
CACHE_LIMIT == 360

CacheKeys(cache) == {cache[i].key : i \in 1..Len(cache)}

CacheGet(cache, key) ==
    cache[CHOOSE i \in 1..Len(cache) : cache[i].key = key].value

\* variant: on overflow the newest entry is deleted
CacheAfterGet_evictNewest(cache, angle) ==
    IF MathRound(angle) \in CacheKeys(cache) THEN cache
    ELSE LET added == Append(cache, [key   |-> MathRound(angle),
                                     value |-> generateRealisticQRSDeflections(angle)])
         IN  IF Len(added) > CACHE_LIMIT THEN SubSeq(added, 1, Len(added) - 1) ELSE added

\* the Map after getCachedDeflections(angle)
CacheAfterGet(cache, angle) ==
    IF MathRound(angle) \in CacheKeys(cache) THEN cache
    ELSE LET added == Append(cache, [key |-> MathRound(angle),
                                     value |-> generateRealisticQRSDeflections(angle)])
         IN  IF Len(added) > CACHE_LIMIT THEN Tail(added) ELSE added

\* the value getCachedDeflections(angle) returns
getCachedDeflections(cache, angle) ==
    IF MathRound(angle) \in CacheKeys(cache)
    THEN CacheGet(cache, MathRound(angle))
    ELSE generateRealisticQRSDeflections(angle)

\* the switch of main.tsx's handlePresetAxisClick and of AxisDashboard's
\* preset effect
PresetSwitchValue_left45(axisType) ==
    CASE axisType = "normal"  -> Rat(60, 1)
      [] axisType = "left"    -> Rat(45, 1)
      [] axisType = "right"   -> Rat(120, 1)
      [] axisType = "extreme" -> Rat(-135, 1)
      [] OTHER -> Rat(60, 1)

PresetSwitchValue(axisType) ==
    CASE axisType = "normal"  -> Rat(60, 1)
      [] axisType = "left"    -> Rat(-45, 1)
      [] axisType = "right"   -> Rat(120, 1)
      [] axisType = "extreme" -> Rat(-135, 1)
      [] OTHER -> Rat(60, 1)

\* App.tsx: AXIS_VALUES[AXIS_TYPE_MAP[axisType]]
PresetTableValue(axisType) ==
    IF axisType \in DOMAIN AXIS_TYPE_MAP
    THEN AXIS_VALUES[AXIS_TYPE_MAP[axisType]] ELSE undefined

\* the four preset buttons
PresetButtons == {"normal", "left", "right", "extreme"}

Builds == {"main.tsx", "App.tsx"}

\* Date.now() when the page has loaded, and the step of the clock
StartTime == 1000
TickMs == 50

\* the clock runs for MaxTicks steps; the user makes at most MaxInputs inputs
\* (preset clicks and pointer positions the compass follows), at most
\* MaxClicks of them clicks
MaxTicks == 3
MaxClicks == 1
MaxInputs == 3

\* the delays of updateParent's throttle and of debouncedFinalUpdate's debounce
THROTTLE_DELAY == 50
DEBOUNCE_DELAY == 100

\* no timeout is pending in debounce
NoTimer == [due |-> 0, angle |-> undefined]

\* pointer positions, in polar form about the compass centre: what
\* Math.atan2(y, x) * (180 / Math.PI) gives for them, and their distance
PointerPositions ==
    {[atan2Degrees |-> Rat(-15, 1),  distance |-> Rat(55, 1)],
     [atan2Degrees |-> Rat(-175, 1), distance |-> Rat(55, 1)],
     [atan2Degrees |-> Rat(884, 5),  distance |-> Rat(55, 1)],
     [atan2Degrees |-> Rat(90, 1),   distance |-> Rat(1, 1)]}

\* the axisAngle prop of AxisDashboard: main.tsx passes the App's state,
\* App.tsx passes nothing and the prop keeps its default
PropAxisAngle == IF build = "main.tsx" THEN appAxisAngle ELSE Rat(60, 1)

\* AxisDashboard returns the 'Indeterminate' message, without the compass,
\* when !axisAngle
CompassRendered == IsNum(PropAxisAngle) /\ PropAxisAngle # Zero

\* the state after the first render and its effects
AppInit ==
    /\ EngineIdle
    /\ build \in Builds
    /\ selectedAxis = ""
    /\ appAxisAngle = Rat(60, 1)
    /\ qrsDeflections = generateRealisticQRSDeflections(Rat(60, 1))
    /\ cachedDeflections = <<>>
    /\ isDraggingRef = FALSE
    /\ lastUpdateTimeRef = 0
    /\ now = StartTime
    /\ lastAngle = Rat(60, 1)
    /\ effectAxisAngle = Rat(60, 1)
    /\ effectAxisType = ""
    /\ isDragging = FALSE
    /\ lastCall = 0
    /\ finalTimer = NoTimer
    /\ draggedAngle = undefined
    /\ clicks = 0
    /\ moves = 0

\* a render changed the axisAngle prop or selectedAxisType and the
\* dashboard's effects have not run yet
EffectsPending == PropAxisAngle # effectAxisAngle \/ selectedAxis # effectAxisType

\* a click on a preset button; React runs pending effects before it handles
\* the click, and the pointer is not held down on the compass
handlePresetAxisClick(axisType) ==
    LET axisValue == IF build = "main.tsx" THEN PresetSwitchValue(axisType)
                     ELSE PresetTableValue(axisType)
    IN  /\ ~EffectsPending
        /\ ~isDragging
        /\ clicks < MaxClicks
        /\ clicks + moves < MaxInputs
        /\ clicks' = clicks + 1
        /\ isDraggingRef' = FALSE
        /\ selectedAxis' = axisType
        /\ cachedDeflections' = CacheAfterGet(cachedDeflections, axisValue)
        /\ appAxisAngle' = axisValue
        /\ qrsDeflections' = getCachedDeflections(cachedDeflections, axisValue)
        /\ UNCHANGED <<build, lastUpdateTimeRef, now, lastAngle, effectAxisAngle,
                       effectAxisType, isDragging, lastCall, finalTimer, draggedAngle,
                       moves>>
        /\ UNCHANGED engineVars

\* handleAxisChange(newAxisAngle, newDeflections); newDeflections is always a
\* complete lead set, so the cache is not consulted
handleAxisChange(newAxisAngle, newDeflections) ==
    LET timeSinceLastUpdate == now - lastUpdateTimeRef
        dragging == IF timeSinceLastUpdate < 100 THEN TRUE
                    ELSE IF timeSinceLastUpdate > 250 THEN FALSE
                    ELSE isDraggingRef
        isFinalUpdate == timeSinceLastUpdate > 250 \/ ~dragging
    IN  /\ lastUpdateTimeRef' = now
        /\ isDraggingRef' = dragging
        /\ appAxisAngle' = roundToDecimal(newAxisAngle)
        /\ qrsDeflections' = newDeflections
        /\ selectedAxis' = IF isFinalUpdate THEN "" ELSE selectedAxis

\* the dashboard's effects after a render that changed axisAngle or
\* selectedAxisType: first lastAngle.current = axisAngle, then the preset effect
DashboardEffects ==
    /\ EffectsPending
    /\ effectAxisType' = selectedAxis
    /\ IF selectedAxis # effectAxisType /\ selectedAxis # ""
       THEN /\ lastAngle' = PresetSwitchValue(selectedAxis)
            /\ handleAxisChange(PresetSwitchValue(selectedAxis),
                    generateRealisticQRSDeflections(PresetSwitchValue(selectedAxis)))
       ELSE /\ lastAngle' = IF PropAxisAngle # effectAxisAngle THEN PropAxisAngle
                            ELSE lastAngle
            /\ UNCHANGED <<selectedAxis, appAxisAngle, qrsDeflections, isDraggingRef,
                           lastUpdateTimeRef>>
    /\ effectAxisAngle' = PropAxisAngle
    /\ UNCHANGED <<build, cachedDeflections, now, isDragging, lastCall, finalTimer,
                   draggedAngle, clicks, moves>>
    /\ UNCHANGED engineVars

\* time passes; a due timeout runs first
Tick ==
    /\ ~EffectsPending
    /\ finalTimer = NoTimer \/ now < finalTimer.due
    /\ now < StartTime + MaxTicks * TickMs
    /\ now' = now + TickMs
    /\ UNCHANGED <<build, selectedAxis, appAxisAngle, qrsDeflections, cachedDeflections,
                   isDraggingRef, lastUpdateTimeRef, lastAngle, effectAxisAngle,
                   effectAxisType, isDragging, lastCall, finalTimer, draggedAngle,
                   clicks, moves>>
    /\ UNCHANGED engineVars

\* the two while loops that end getAngleFromMousePosition
RECURSIVE Below180(_)
Below180(angle) ==
    IF RLt(Rat(180, 1), angle) THEN Below180(RSub(angle, Rat(360, 1))) ELSE angle

RECURSIVE Above180(_)
Above180(angle) ==
    IF RLt(angle, Rat(-180, 1)) THEN Above180(RAdd(angle, Rat(360, 1))) ELSE angle

smoothingFactor(distance) ==
    LET maxSmoothing == Rat(85, 100)
        minSmoothing == Rat(2, 10)
        distanceNormalized ==
            RMin(Rat(1, 1), RMax(Zero, RDiv(RSub(distance, Rat(5, 1)), Rat(50, 1))))
    IN  RSub(maxSmoothing, RMul(RSub(maxSmoothing, minSmoothing), distanceNormalized))

\* getAngleFromMousePosition for a pointer at the given distance from the
\* centre, in the direction atan2Degrees
getAngleFromMousePosition(atan2Degrees, distance) ==
    IF ~CompassRendered THEN lastAngle
    ELSE IF RLt(distance, Rat(2, 1)) THEN lastAngle
    ELSE LET unwrapped ==
                 IF RLt(Rat(150, 1), lastAngle) /\ RLt(atan2Degrees, Rat(-150, 1))
                 THEN RAdd(atan2Degrees, Rat(360, 1))
                 ELSE IF RLt(lastAngle, Rat(-150, 1)) /\ RLt(Rat(150, 1), atan2Degrees)
                 THEN RSub(atan2Degrees, Rat(360, 1))
                 ELSE atan2Degrees
             sf == smoothingFactor(distance)
             smoothed == RAdd(RMul(lastAngle, sf), RMul(unwrapped, RSub(Rat(1, 1), sf)))
         IN  Above180(Below180(smoothed))

\* updateAngle(newAngle): the ref, then the throttled updateParent
updateAngle(newAngle) ==
    /\ moves' = moves + 1
    /\ lastAngle' = newAngle
    /\ draggedAngle' = newAngle
    /\ IF now - lastCall >= THROTTLE_DELAY
       THEN /\ lastCall' = now
            /\ handleAxisChange(newAngle, generateRealisticQRSDeflections(newAngle))
       ELSE UNCHANGED <<lastCall, selectedAxis, appAxisAngle, qrsDeflections,
                        isDraggingRef, lastUpdateTimeRef>>

\* pointer down on the compass; React runs pending effects before it
\* handles the event
handleMouseDown(atan2Degrees, distance) ==
    /\ CompassRendered
    /\ ~EffectsPending
    /\ ~isDragging
    /\ clicks + moves < MaxInputs
    /\ isDragging' = TRUE
    /\ updateAngle(getAngleFromMousePosition(atan2Degrees, distance))
    /\ UNCHANGED <<build, cachedDeflections, now, effectAxisAngle, effectAxisType,
                   finalTimer, clicks>>
    /\ UNCHANGED engineVars

\* handlePointerMove and handleMouseMove, the document's listeners
handlePointerMove(atan2Degrees, distance) ==
    /\ isDragging
    /\ clicks + moves < MaxInputs
    /\ LET newAngle == getAngleFromMousePosition(atan2Degrees, distance)
       IN  IF RLt(Rat(2, 10), RAbs(RSub(newAngle, lastAngle)))
           THEN updateAngle(newAngle)
           ELSE UNCHANGED <<moves, lastAngle, draggedAngle, lastCall, selectedAxis,
                            appAxisAngle, qrsDeflections, isDraggingRef, lastUpdateTimeRef>>
    /\ UNCHANGED <<build, cachedDeflections, now, effectAxisAngle, effectAxisType,
                   isDragging, finalTimer, clicks>>
    /\ UNCHANGED engineVars

\* handleMouseUp, the document's pointerup and mouseup listener, while a
\* drag is on: debouncedFinalUpdate(lastAngle.current) restarts the timeout
handleMouseUp ==
    /\ isDragging
    /\ isDragging' = FALSE
    /\ finalTimer' = [due |-> now + DEBOUNCE_DELAY, angle |-> lastAngle]
    /\ UNCHANGED <<build, selectedAxis, appAxisAngle, qrsDeflections, cachedDeflections,
                   isDraggingRef, lastUpdateTimeRef, now, lastAngle, effectAxisAngle,
                   effectAxisType, lastCall, draggedAngle, clicks, moves>>
    /\ UNCHANGED engineVars

\* the debounce timeout runs: onAxisChange(finalAngle, finalDeflections)
FinalUpdate ==
    /\ finalTimer # NoTimer
    /\ now >= finalTimer.due
    /\ ~EffectsPending
    /\ finalTimer' = NoTimer
    /\ handleAxisChange(finalTimer.angle, generateRealisticQRSDeflections(finalTimer.angle))
    /\ UNCHANGED <<build, cachedDeflections, now, lastAngle, effectAxisAngle,
                   effectAxisType, isDragging, lastCall, draggedAngle, clicks, moves>>
    /\ UNCHANGED engineVars

AppNext ==
    \/ \E axisType \in PresetButtons : handlePresetAxisClick(axisType)
    \/ DashboardEffects
    \/ Tick
    \/ \E p \in PointerPositions : handleMouseDown(p.atan2Degrees, p.distance)
    \/ \E p \in PointerPositions : handlePointerMove(p.atan2Degrees, p.distance)
    \/ handleMouseUp
    \/ FinalUpdate

AppSpec == AppInit /\ [][AppNext]_vars

----------------------------------------------------------------------------
(* getCachedDeflections called directly, any number of times.  The calls are
   a sweep over the whole degrees from SweepFrom to SweepTo, ascending, mixed
   with calls for a few angles just below the sweep that round to one key;
   the mixed-in calls are taken while the cache holds at most MaxEarly
   entries and again once it is full. *)

SweepFrom == -180
SweepTo   == 180
MaxEarly  == 2

\* -181.6, -182 and -182.4: Math.round gives -182 for each
NearAngles == {Rat(-908, 5), Rat(-182, 1), Rat(-912, 5)}

SweepAngles(cache) ==
    LET swept == {k \in CacheKeys(cache) : k >= SweepFrom}
        next  == IF swept = {} THEN SweepFrom
                 ELSE (CHOOSE k \in swept : \A j \in swept : j <= k) + 1
    IN  IF next <= SweepTo THEN {Rat(next, 1)} ELSE {}

CacheCallAngles(cache) ==
    SweepAngles(cache) \cup
        (IF Len(cache) <= MaxEarly \/ Len(cache) >= CACHE_LIMIT THEN NearAngles ELSE {})

CallGetCached(a) ==
    /\ engine' = "getCachedDeflections"
    /\ argAngle' = a
    /\ limbOut' = getCachedDeflections(cachedDeflections, a)
    /\ cachedDeflections' = CacheAfterGet(cachedDeflections, a)
    /\ UNCHANGED <<argBase, argPattern, chestOut, classOut>>
    /\ UNCHANGED <<build, selectedAxis, appAxisAngle, qrsDeflections, isDraggingRef,
                   lastUpdateTimeRef, now, lastAngle, effectAxisAngle, effectAxisType,
                   isDragging, lastCall, finalTimer, draggedAngle, clicks, moves>>

CacheNext == \E a \in CacheCallAngles(cachedDeflections) : CallGetCached(a)

CacheSpec == Init /\ [][CacheNext]_vars

----------------------------------------------------------------------------
(* Properties *)

LimbReturned == engine = "limb"
ChestReturned == engine = "chest"

\* the call used the default baseAmplitude (1.0)
DefaultBase == argBase = undefined

NonNegative(v) == IsNum(v) /\ v.n >= 0
NonPositive(v) == IsNum(v) /\ v.n <= 0
Finite(qrs) == IsNum(qrs.q) /\ IsNum(qrs.r) /\ IsNum(qrs.s)

\* the angular distance |normalize(L - a)| of lead l from the axis of the call
AngularDistance(l) == RAbs(normalizeAngle(RSub(leadAngles[l], argAngle)))

Classified == engine \in Classifiers

\* C1: every limb call, whatever the angle and baseAmplitude, returns q = 0
\* in each of the six leads
C1_LimbQZero ==
    LimbReturned => \A l \in LimbLeads : limbOut[l].q = Zero

C1_Witness ==
    /\ LimbReturned
    /\ argAngle = Rat(-135, 1)
    /\ argBase = Rat(2, 1)
    /\ \A l \in LimbLeads : limbOut[l].q = Zero /\ limbOut[l].r # Zero

\* C2: every deflection returned by the limb engine (any input) and by the
\* chest engine (any finite angle, any pattern) has q <= 0, r >= 0 and s <= 0
C2_Signs ==
    /\ LimbReturned =>
          \A l \in LimbLeads :
              NonPositive(limbOut[l].q) /\ NonNegative(limbOut[l].r) /\ NonPositive(limbOut[l].s)
    /\ (ChestReturned /\ IsNum(argAngle)) =>
          \A l \in ChestLeads :
              NonPositive(chestOut[l].q) /\ NonNegative(chestOut[l].r) /\ NonPositive(chestOut[l].s)

\* a limb call whose S wave was raised to the floor, still negative
C2_Witness ==
    /\ LimbReturned
    /\ argBase = Rat(1, 4)
    /\ argAngle = Rat(60, 1)
    /\ limbOut["leadII"].s = Rat(-15, 100)
    /\ limbOut["leadII"].r.n > 0

TotalMagnitude(qrs) == JAdd(JAdd(JAbs(qrs.q), qrs.r), JAbs(qrs.s))

\* C4: every chest lead returned satisfies |q| + r + |s| <= MAX_DEFLECTION,
\* the constant imported from axisConstants
C4_ChestCeiling ==
    ChestReturned =>
        \A l \in ChestLeads : JLe(TotalMagnitude(chestOut[l]), MAX_DEFLECTION)

\* C5: a NaN or undefined axis angle makes either engine return a lead set
\* whose every q, r and s is a finite number
C5_NonFiniteAngleFiniteOutput ==
    /\ (LimbReturned /\ argAngle \in {NaN, undefined}) =>
          \A l \in LimbLeads : Finite(limbOut[l])
    /\ (ChestReturned /\ argAngle \in {NaN, undefined}) =>
          \A l \in ChestLeads : Finite(chestOut[l])

\* C6: with the default baseAmplitude, a limb lead whose angular distance
\* from the axis is inside the override band (|distance - 90| < 5) is
\* returned with r equal to |s|
C6_Isoelectric ==
    (LimbReturned /\ DefaultBase /\ IsNum(argAngle)) =>
        \A l \in LimbLeads :
            RLt(RAbs(RSub(AngularDistance(l), Rat(90, 1))), Rat(5, 1))
                => limbOut[l].r = RAbs(limbOut[l].s)

\* aVL is 86 degrees from the axis 56: inside the band, not exactly perpendicular
C6_Witness ==
    /\ LimbReturned /\ DefaultBase
    /\ argAngle = Rat(56, 1)
    /\ AngularDistance("aVL") = Rat(86, 1)
    /\ limbOut["aVL"].r = Rat(27, 10)
    /\ limbOut["aVL"].s = Rat(-27, 10)

\* C7: calculateLimbLeadDeflections(60) returns leadII with an r strictly
\* larger, and an |s| strictly smaller, than every other lead's
C7_LeadIIStrongest ==
    (LimbReturned /\ DefaultBase /\ argAngle = Rat(60, 1)) =>
        \A l \in LimbLeads \ {"leadII"} :
            /\ RLt(limbOut[l].r, limbOut["leadII"].r)
            /\ RLt(RAbs(limbOut["leadII"].s), RAbs(limbOut[l].s))

C7_Witness ==
    /\ LimbReturned /\ DefaultBase
    /\ argAngle = Rat(60, 1)
    /\ limbOut["leadII"].r = Rat(5832, 1000)
    /\ limbOut["leadII"].s = Rat(-432, 1000)

\* C8 as stated: calculateLimbLeadDeflections(-150) returns aVR, at angular
\* distance 0, R-dominant and leadI, at angular distance 180, S-dominant
C8_Original ==
    (LimbReturned /\ DefaultBase /\ argAngle = Rat(-150, 1)) =>
        /\ AngularDistance("aVR") = Zero
        /\ RLt(RAbs(limbOut["aVR"].s), limbOut["aVR"].r)
        /\ AngularDistance("leadI") = Rat(180, 1)
        /\ RLt(limbOut["leadI"].r, RAbs(limbOut["leadI"].s))

\* C8 amended: calculateLimbLeadDeflections(-150) returns aVR, at angular
\* distance 0, R-dominant and leadI, at angular distance 150 (not 180),
\* S-dominant
C8_Amended ==
    (LimbReturned /\ DefaultBase /\ argAngle = Rat(-150, 1)) =>
        /\ AngularDistance("aVR") = Zero
        /\ RLt(RAbs(limbOut["aVR"].s), limbOut["aVR"].r)
        /\ AngularDistance("leadI") = Rat(150, 1)
        /\ RLt(limbOut["leadI"].r, RAbs(limbOut["leadI"].s))

C8_Witness ==
    /\ LimbReturned /\ DefaultBase
    /\ argAngle = Rat(-150, 1)
    /\ limbOut["aVR"].r = Rat(5832, 1000)
    /\ limbOut["leadI"].r = Rat(126, 100)
    /\ limbOut["leadI"].s = Rat(-414, 100)

\* r strictly increases and |s| strictly decreases along CHEST_LEADS
RWaveProgression(out) ==
    \A i \in 1..(Len(CHEST_LEADS) - 1) :
        /\ JGt(out[CHEST_LEADS[i + 1]].r, out[CHEST_LEADS[i]].r)
        /\ JGt(JAbs(out[CHEST_LEADS[i]].s), JAbs(out[CHEST_LEADS[i + 1]].s))

\* C9: calculateChestLeadDeflections(60, NORMAL) returns r strictly
\* increasing and |s| strictly decreasing from V1 through V6
C9_NormalProgressionAt60 ==
    (ChestReturned /\ argAngle = Rat(60, 1) /\ argPattern \in {"normal", "undefined"}) =>
        RWaveProgression(chestOut)

C9_Witness ==
    /\ ChestReturned
    /\ argAngle = Rat(60, 1)
    /\ argPattern = "normal"
    /\ chestOut["V1"].r = Rat(2, 1)
    /\ chestOut["V6"].r = Rat(117, 10)
    /\ chestOut["V6"].s = Rat(-65, 100)

\* the category the stated ranges give an angle of (-180, 180]
RangeCategory(a) ==
    IF RLe(Rat(-30, 1), a) /\ RLe(a, Rat(90, 1)) THEN "Normal"
    ELSE IF RLt(Rat(90, 1), a) /\ RLe(a, Rat(180, 1)) THEN "Right Axis Deviation"
    ELSE IF RLe(Rat(-90, 1), a) /\ RLt(a, Rat(-30, 1)) THEN "Left Axis Deviation"
    ELSE "Extreme Axis Deviation"

\* C11: for every angle in (-180, 180], classifyAxisValue and classifyAxis
\* return Normal on [-30, 90], Right Axis Deviation on (90, 180] (180
\* included), Left Axis Deviation on [-90, -30) and Extreme Axis Deviation
\* on (-180, -90)
C11_Classification ==
    (Classified /\ IsNum(argAngle)
         /\ RLt(Rat(-180, 1), argAngle) /\ RLe(argAngle, Rat(180, 1))) =>
        classOut = RangeCategory(argAngle)

\* C12: a limb call with a non-finite or missing axis angle returns what the
\* call with 0 returns, a call with a non-positive or non-finite
\* baseAmplitude returns what the call with 1.0 returns, and the result is a
\* complete set of finite deflections (nothing is thrown)
C12_InvalidInputDefaults ==
    (LimbReturned /\ (~IsNum(argAngle) \/ ~IsNum(argBase) \/ RLe(argBase, Zero))) =>
        /\ limbOut = calculateLimbLeadDeflections(
                        IF IsNum(argAngle) THEN argAngle ELSE Zero,
                        IF IsNum(argBase) /\ RLt(Zero, argBase) THEN argBase ELSE Rat(1, 1))
        /\ \A l \in LimbLeads : Finite(limbOut[l])

\* NaN and -0.25 were replaced by 0 and 1.0: leadI is aligned with the axis
C12_Witness ==
    /\ LimbReturned
    /\ argAngle = NaN
    /\ argBase = Rat(-1, 4)
    /\ limbOut["leadI"].r = Rat(5832, 1000)
    /\ limbOut["leadI"].s = Rat(-432, 1000)

\* C13: for each of the seven patterns and a finite angle, every chest lead
\* V1..V6 is returned with r > 0 and s < 0 (no all-zero triple)
C13_EveryPatternHasRecipe ==
    (ChestReturned /\ IsNum(argAngle)) =>
        \A l \in ChestLeads :
            JGt(chestOut[l].r, Zero) /\ JLt(chestOut[l].s, Zero)

\* the category each preset button names
PresetCategory ==
    [normal |-> "Normal", left |-> "Left Axis Deviation",
     right |-> "Right Axis Deviation", extreme |-> "Extreme Axis Deviation"]

\* the fixed value each preset button shows
PresetFixedValue ==
    [normal |-> Rat(60, 1), left |-> Rat(-45, 1), right |-> Rat(120, 1),
     extreme |-> Rat(-135, 1)]

\* C14: a click on a preset button sets the axis angle to the preset's fixed
\* value (60, -45, 120, -135), whichever App source handles it; the
\* dashboard's preset effect sets lastAngle and the axis angle to the same
\* value; AXIS_VALUES holds the same value, and classifyAxisValue puts it in
\* the category the preset names
C14_Presets ==
    [][/\ clicks' = clicks + 1 =>
              appAxisAngle' = PresetFixedValue[selectedAxis']
       /\ (effectAxisType' # effectAxisType /\ effectAxisType' # "") =>
              /\ lastAngle' = PresetFixedValue[effectAxisType']
              /\ appAxisAngle' = PresetFixedValue[effectAxisType']
       /\ \A t \in PresetButtons :
              /\ PresetSwitchValue(t) = PresetFixedValue[t]
              /\ AXIS_VALUES[AXIS_TYPE_MAP[t]] = PresetFixedValue[t]
              /\ classifyAxisValue(PresetFixedValue[t]) = PresetCategory[t]]_vars

\* the Extreme preset, clicked in the App.tsx build, after the dashboard's
\* preset effect has run and left the preset active
C14_Witness ==
    /\ build = "App.tsx"
    /\ selectedAxis = "extreme"
    /\ effectAxisType = "extreme"
    /\ appAxisAngle = Rat(-135, 1)
    /\ lastAngle = Rat(-135, 1)
    /\ qrsDeflections = generateRealisticQRSDeflections(Rat(-135, 1))

Congruent360(x, y) == RDiv(RSub(x, y), Rat(360, 1)).d = 1

QRSComponents == {"q", "r", "s"}

\* out is pre with every component of every lead multiplied by factor
ScaledBy(pre, factor, out) ==
    \A l \in LimbLeads : \A c \in QRSComponents : out[l][c] = RMul(pre[l][c], factor)

\* the ratio between any two components, of any two leads, is the same in
\* pre and in out
RatiosKept(pre, out) ==
    \A l1 \in LimbLeads, l2 \in LimbLeads : \A c1 \in QRSComponents, c2 \in QRSComponents :
        RMul(out[l1][c1], pre[l2][c2]) = RMul(out[l2][c2], pre[l1][c1])

GloballyNormalized(pre, max, out) ==
    IF RLt(Rat(9, 1), max)
    THEN /\ ScaledBy(pre, RDiv(Rat(9, 1), max), out)
         /\ MaxAbsValue(out, LimbLeads) = Rat(9, 1)
         /\ RatiosKept(pre, out)
    ELSE out = pre

C18_FloorsSurviveScaling ==
    (LimbReturned /\ IsNum(argBase) /\ RLt(Zero, argBase)) =>
        \A l \in LimbLeads :
            /\ RLe(Rat(3, 10), limbOut[l].r)
            /\ RLe(limbOut[l].s, Rat(-15, 100))

\* baseAmplitude 0.05 at axis 60: leadII's projection is r = 0.2916,
\* s = -0.0216, both below the floors, and is returned as 0.3 / -0.15
C18_Witness ==
    /\ LimbReturned
    /\ argAngle = Rat(60, 1)
    /\ argBase = Rat(1, 20)
    /\ createQRSDeflection(argAngle, leadAngles["leadII"], argBase).r = Rat(2916, 10000)
    /\ createQRSDeflection(argAngle, leadAngles["leadII"], argBase).s = Rat(-216, 10000)
    /\ limbOut["leadII"].r = Rat(3, 10)
    /\ limbOut["leadII"].s = Rat(-15, 100)

\* T = 3.0 x 1.8 x baseAmplitude, for the baseAmplitude the call works with
TotalAmplitude ==
    RMul(Rat(54, 10), IF IsNum(argBase) /\ RLt(Zero, argBase) THEN argBase ELSE Rat(1, 1))

\* r + |s| of what createQRSDeflection returns for lead l in the call
ProjectionSum(l) ==
    RAdd(createQRSDeflection(WrapAngle(argAngle), leadAngles[l], argBase).r,
         RAbs(createQRSDeflection(WrapAngle(argAngle), leadAngles[l], argBase).s))

\* C19 as stated: for every angular difference between lead and axis,
\* createQRSDeflection returns r + |s| = T
C19_Original ==
    (LimbReturned /\ IsNum(argAngle)) =>
        \A l \in LimbLeads : ProjectionSum(l) = TotalAmplitude

\* C19 amended: createQRSDeflection returns r + |s| = T for an angular
\* difference from 15 to 165 degrees (the perpendicular override included);
\* below 15 and above 165 the boost multipliers make r + |s| larger than T
C19_Amended ==
    (LimbReturned /\ IsNum(argAngle)) =>
        \A l \in LimbLeads :
            IF RLe(Rat(15, 1), AngularDistance(l)) /\ RLe(AngularDistance(l), Rat(165, 1))
            THEN ProjectionSum(l) = TotalAmplitude
            ELSE RLt(TotalAmplitude, ProjectionSum(l))

\* axis 60, baseAmplitude 2 (T = 10.8): aVL is perpendicular and leadI is 60
\* degrees away, both with r + |s| = T; leadII is aligned, 11.664 + 0.864
C19_Witness ==
    /\ LimbReturned
    /\ argAngle = Rat(60, 1)
    /\ argBase = Rat(2, 1)
    /\ TotalAmplitude = Rat(108, 10)
    /\ ProjectionSum("aVL") = Rat(108, 10)
    /\ ProjectionSum("leadI") = Rat(108, 10)
    /\ ProjectionSum("leadII") = Rat(12528, 1000)

\* the triple out has the q : r : s ratios of the triple pre
SameRatios(pre, out) ==
    /\ JMul(out.q, pre.r) = JMul(out.r, pre.q)
    /\ JMul(out.s, pre.r) = JMul(out.r, pre.s)

\* the lead set the call handed to normalizeDeflections
ChestGenerated ==
    GenerateChestLeads(argAngle, IF argPattern = "undefined" THEN "normal" ELSE argPattern)

\* C20: normalizeDeflections treats each chest lead on its own: a lead whose
\* |q| + r + |s| is at most MAX_DEFLECTION is returned unchanged, and a lead
\* above it is returned with its q : r : s ratios kept and a sum of exactly
\* MAX_DEFLECTION
C20_PerLeadNormalization ==
    (ChestReturned /\ IsNum(argAngle)) =>
        \A l \in ChestLeads :
            \/ /\ JLe(TotalMagnitude(ChestGenerated[l]), MAX_DEFLECTION)
               /\ chestOut[l] = ChestGenerated[l]
            \/ /\ JGt(TotalMagnitude(ChestGenerated[l]), MAX_DEFLECTION)
               /\ TotalMagnitude(chestOut[l]) = MAX_DEFLECTION
               /\ SameRatios(ChestGenerated[l], chestOut[l])

----------------------------------------------------------------------------
\* C21: for every pattern other than Normal the chest-lead output does not
\* depend on the axis angle: whatever angle was passed, finite or not, the
\* returned set is the one the same pattern returns at the reference axis 60.
C21_NonNormalIgnoresAngle ==
    (ChestReturned /\ argPattern \notin {"normal", "undefined"})
        => chestOut = calculateChestLeadDeflections(Rat(60, 1), argPattern)

\* LVH called with a non-finite angle and with an angle opposite to 60
C21_Witness ==
    /\ ChestReturned
    /\ argPattern = "lvh"
    /\ argAngle \in {NaN, Rat(-120, 1)}
    /\ chestOut["V5"].r # Zero

\* C22: for the Normal pattern and every axis angle,
\* calculateChestLeadDeflections returns r strictly increasing and |s|
\* strictly decreasing from V1 through V6
C22_NormalProgressionEveryAngle ==
    (ChestReturned /\ argPattern \in {"normal", "undefined"} /\ IsNum(ToNum(argAngle))) =>
        RWaveProgression(chestOut)

\* C23: for every baseAmplitude > 0 and every axis angle, a limb lead
\* exactly perpendicular to the axis (angular distance 90) is returned with
\* r equal to |s|
C23_PerpendicularSymmetric ==
    (LimbReturned /\ IsNum(argAngle) /\ IsNum(argBase) /\ RLt(Zero, argBase)) =>
        \A l \in LimbLeads :
            AngularDistance(l) = Rat(90, 1) => limbOut[l].r = RAbs(limbOut[l].s)

\* the axis createQRSDeflection works with: an invalid axis angle counts as 0
EffectiveAxis == IF isValidNumber(argAngle) THEN argAngle ELSE Zero

\* |normalize(L - axis)| for lead l
DistanceFromAxis(l) == RAbs(normalizeAngle(RSub(leadAngles[l], EffectiveAxis)))

\* C24: in every returned limb set, a lead nearer to the axis (smaller
\* angular distance) has r at least as large and |s| at most as large as a
\* lead farther from it, and two leads at the same angular distance have
\* identical r and s
C24_OrderedByAngularDistance ==
    LimbReturned =>
        \A a, b \in LimbLeads :
            /\ RLt(DistanceFromAxis(a), DistanceFromAxis(b)) =>
                   /\ RLe(limbOut[b].r, limbOut[a].r)
                   /\ RLe(RAbs(limbOut[a].s), RAbs(limbOut[b].s))
            /\ DistanceFromAxis(a) = DistanceFromAxis(b) =>
                   /\ limbOut[a].r = limbOut[b].r
                   /\ limbOut[a].s = limbOut[b].s

\* axis 30: leadI and leadII are both 30 degrees away (on either side) and
\* nearer than aVF (60 degrees), with a strictly larger r
C24_Witness ==
    /\ LimbReturned
    /\ argAngle = Rat(30, 1)
    /\ DistanceFromAxis("leadI") = Rat(30, 1)
    /\ DistanceFromAxis("leadII") = Rat(30, 1)
    /\ DistanceFromAxis("aVF") = Rat(60, 1)
    /\ limbOut["leadI"] = limbOut["leadII"]
    /\ RLt(limbOut["aVF"].r, limbOut["leadI"].r)
    /\ RLt(RAbs(limbOut["leadI"].s), RAbs(limbOut["aVF"].s))

CacheReturned == engine = "getCachedDeflections"

C26_BoundedOldestFirst ==
    [][LET old == cachedDeflections
           new == cachedDeflections'
           key == MathRound(argAngle')
       IN  /\ Len(new) <= 360
           /\ key \in CacheKeys(old) => new = old
           /\ key \notin CacheKeys(old) =>
                  /\ new[Len(new)] = [key |-> key, value |-> limbOut']
                  /\ IF Len(old) = 360
                     THEN /\ Len(new) = 360
                          /\ \A i \in 1..359 : new[i] = old[i + 1]
                          /\ CacheKeys(old) \ CacheKeys(new) = {old[1].key}
                     ELSE /\ Len(new) = Len(old) + 1
                          /\ \A i \in 1..Len(old) : new[i] = old[i]]_vars

\* the cache is full, the call just made missed, and the oldest key is gone
C26_Witness ==
    /\ CacheReturned
    /\ Len(cachedDeflections) = 360
    /\ cachedDeflections[360].key = MathRound(argAngle)
    /\ argAngle = Rat(180, 1)
    /\ cachedDeflections[1].key = -179

\* C27: when the debounced final update of a finished drag is delivered, the
\* parent's axis angle becomes the last angle the drag computed (as
\* handleAxisChange stores it, rounded to one decimal)
C27_FinalUpdateCarriesLastDraggedAngle ==
    [][(finalTimer # NoTimer /\ finalTimer' = NoTimer /\ ~isDragging) =>
           appAxisAngle' = roundToDecimal(draggedAngle)]_vars

\* C28: once a preset is selected, selectedAxis changes only by another
\* click on a preset button or by a drag (a pointer position the compass
\* follows, or the final update of a drag); in particular the dashboard's
\* preset effect leaves it as it is
C28_PresetStaysSelected ==
    [][(selectedAxis # "" /\ selectedAxis' # selectedAxis) =>
           \/ clicks' # clicks
           \/ moves' # moves
           \/ finalTimer' # finalTimer]_vars

\* C29: whatever number the parent holds as axis angle, AxisDashboard
\* renders the compass (it does not return the 'Indeterminate' message), so
\* a drag can start
C29_CompassAlwaysRendered ==
    IsNum(appAxisAngle) => CompassRendered

InHalfOpenRange(angle) == RLt(Rat(-180, 1), angle) /\ RLe(angle, Rat(180, 1))

\* C30: every angle getAngleFromMousePosition produced for updateAngle, every
\* angle waiting to be handed to onAxisChange and the angle the parent stores
\* lie in (-180, 180]
C30_AnglesInHalfOpenRange ==
    /\ IsNum(draggedAngle) => InHalfOpenRange(draggedAngle)
    /\ finalTimer # NoTimer => InHalfOpenRange(finalTimer.angle)
    /\ InHalfOpenRange(lastAngle)
    /\ InHalfOpenRange(appAxisAngle)

====
